---- MODULE Spec2Model ----
(***************************************************************************)
(* The input dispatch core of ded: Controller::run (src/src/control.rs).   *)
(* One step of the model is one iteration of the loop in run: a key is     *)
(* read from the keyboard (time passes while the read blocks) and is then  *)
(* processed to completion.                                                *)
(*                                                                         *)
(* Collaborators whose code is not part of control.rs (Bindings, Key's     *)
(* Display, InputEditor, the operations, the answer callbacks, the         *)
(* terminal) appear through their interface: every call the controller     *)
(* makes on them in an iteration is recorded, in order, in `calls`.        *)
(***************************************************************************)
EXTENDS Integers, Sequences, FiniteSets, TLC

VARIABLES
    pc,            \* "run": in the loop; "quit": run returned Ok; "failed": run returned Err
    key,           \* what keyboard.read() returned to the latest iteration
    now,           \* wall clock in milliseconds (what Instant::now() returns)
    key_seq,       \* Context.key_seq
    last_alert,    \* Context.last_alert : Option<Instant>
    question,      \* Context.question : Option<Question>
    term_changed,  \* Context.term_changed : Option<Instant>
    alert,         \* the alert text the workspace displays, if any
    calls,         \* calls made on collaborators by the latest iteration, in order
    keyboard       \* the key source

vars == <<pc, key, now, key_seq, last_alert, question, term_changed, alert, calls, keyboard>>

---------------------------------------------------------------------------
(* Bounds of the model. *)

\* The clock stops advancing once it has reached MaxTime.
MaxTime == 202
\* The line editor of a Question holds at most MaxBuf characters.
MaxBuf == 2
\* The longest scripted key sequence of SpecFeed.
MaxScript == 3

---------------------------------------------------------------------------
(* Keys. *)

Char(c) == [tag |-> "Char", v |-> c]
Control(n) == [tag |-> "Control", v |-> n]
KeyNone == [tag |-> "None", v |-> 0]
\* What `key` holds when the read failed and run returned its error.
KeyErr == [tag |-> "Err", v |-> 0]

CTRL_G == Control(7)

CTRL_A == Control(1)
CTRL_C == Control(3)
CTRL_X == Control(24)
CHAR_a == Char(97)
CHAR_b == Char(98)

\* The keys a person can type in the model.
RealKeys == {CHAR_a, CHAR_b, CTRL_A, CTRL_C, CTRL_G, CTRL_X}

\* The time a blocking read may take, in milliseconds.
Delays == {0, 100, 101}

\* Option values.
NoInstant == [some |-> FALSE, v |-> 0]
SomeInstant(t) == [some |-> TRUE, v |-> t]
NoText == [some |-> FALSE, v |-> ""]
SomeText(s) == [some |-> TRUE, v |-> s]
NoChar == [some |-> FALSE, v |-> 0]
SomeChar(c) == [some |-> TRUE, v |-> c]
NoOp == [some |-> FALSE, v |-> ""]
SomeOp(f) == [some |-> TRUE, v |-> f]

\* struct Question { editor, answer_fn }; the editor is its prompt and the
\* characters typed into it.
NoQuestion == [some |-> FALSE, prompt |-> "", buffer |-> <<>>, answer_fn |-> ""]
Question(prompt, buffer, answer_fn) ==
    [some |-> TRUE, prompt |-> prompt, buffer |-> buffer, answer_fn |-> answer_fn]

\* A recorded call: the function called, the operation or callback it
\* stands for, its key-sequence argument, its text argument and its result,
\* each empty where the call has none.
CallRecord(fn, target, keys, arg, ret) ==
    [fn |-> fn, target |-> target, keys |-> keys, arg |-> arg, ret |-> ret]
Call(fn, text) == CallRecord(fn, "", <<>>, SomeText(text), "")
KeysCall(fn, keys, ret) == CallRecord(fn, "", keys, NoText, ret)
OpCall(op, ret) == CallRecord("op_fn", op, <<>>, NoText, ret)
AnswerCall(f, arg, ret) == CallRecord("answer_fn", f, <<>>, arg, ret)

---------------------------------------------------------------------------
(* Key's Display and the characters of a text. *)

CharString(c) == IF c = 97 THEN "a" ELSE IF c = 98 THEN "b" ELSE "?"

ControlString(n) ==
    IF n = 1 THEN "^A"
    ELSE IF n = 3 THEN "^C"
    ELSE IF n = 7 THEN "^G"
    ELSE IF n = 24 THEN "^X"
    ELSE "^?"

\* key.to_string()
KeyString(k) ==
    IF k.tag = "Char" THEN CharString(k.v)
    ELSE IF k.tag = "Control" THEN ControlString(k.v)
    ELSE "none"

\* impl fmt::Display for KeySeq: the keys' strings joined by " ".
RECURSIVE KeySeqString(_)
KeySeqString(ks) ==
    IF ks = <<>> THEN ""
    ELSE IF Len(ks) = 1 THEN KeyString(ks[1])
    ELSE KeyString(ks[1]) \o " " \o KeySeqString(Tail(ks))

---------------------------------------------------------------------------
(* Bindings: the bound key sequences and the operation each is bound to. *)

BoundSeqs ==
    { [keys |-> <<CTRL_A>>,                 op |-> "move-begin-line"],
      [keys |-> <<CTRL_X, CTRL_C>>,         op |-> "quit"],
      [keys |-> <<CTRL_X, CTRL_X, CTRL_A>>, op |-> "open-window-top"],
      [keys |-> <<CTRL_X, CHAR_a>>,         op |-> "open-window-above"],
      [keys |-> <<CHAR_a, CTRL_A>>,         op |-> "move-top"],
      [keys |-> <<CTRL_X, CTRL_G>>,         op |-> "close-window"],
      [keys |-> <<CTRL_A, CTRL_C, CTRL_A>>, op |-> "redraw"] }

IsBound(ks) == \E b \in BoundSeqs : b.keys = ks

\* Bindings::find: the operation bound to exactly this sequence.
find(ks) ==
    IF IsBound(ks)
    THEN SomeOp((CHOOSE b \in BoundSeqs : b.keys = ks).op)
    ELSE NoOp

\* Bindings::is_prefix: some longer bound sequence begins with this one.
is_prefix(ks) ==
    \E b \in BoundSeqs :
        /\ Len(b.keys) > Len(ks)
        /\ SubSeq(b.keys, 1, Len(ks)) = ks

---------------------------------------------------------------------------
(* The Question's line editor. *)

Directives == {"Continue", "Accept", "Cancel"}

\* InputEditor::buffer: the text typed so far.
RECURSIVE buffer(_)
buffer(chars) ==
    IF chars = <<>> THEN "" ELSE CharString(Head(chars)) \o buffer(Tail(chars))

\* InputEditor::process_key: a character is added to the text and editing
\* continues; which of the other keys accept and which cancel is the
\* editor's business, so their directive `dir` is any of the three.
process_key(q, k, dir) ==
    IF k.tag = "Char"
    THEN [question |-> [q EXCEPT !.buffer = Append(@, k.v)], directive |-> "Continue"]
    ELSE [question |-> q, directive |-> dir]

---------------------------------------------------------------------------
(* What an operation or an answer callback returns: Result<Option<Action>>. *)

AnswerFns == {"answer1", "answer2"}

Outcome(tag, text, fn) == [tag |-> tag, text |-> text, fn |-> fn]
Err == Outcome("Err", "", "")
Quit == Outcome("Quit", "", "")
Nothing == Outcome("None", "", "")
Outcomes ==
    {Err, Quit, Nothing, Outcome("Alert", "saved", "")}
        \cup {Outcome("Question", "file:", f) : f \in AnswerFns}

---------------------------------------------------------------------------
(* The controller's state as one value, and its methods as functions on it. *)

Context ==
    [key_seq |-> key_seq, last_alert |-> last_alert, question |-> question,
     term_changed |-> term_changed, alert |-> alert, calls |-> <<>>]

Log(st, c) == [st EXCEPT !.calls = Append(@, c)]

\* Controller::set_question
set_question(st, prompt, answer_fn) ==
    [Log(st, Call("InputEditor::new", prompt))
        EXCEPT !.question = Question(prompt, <<>>, answer_fn)]

\* clear_question that leaves the Question in place.
clear_question_keeps(st) == st

\* Controller::clear_question
clear_question(st) ==
    IF st.question.some
    THEN Log(Log([st EXCEPT !.question = NoQuestion],
                 Call("clear_shared", "")),
             Call("show_cursor", ""))
    ELSE st

\* possible_char that never sees a character.
possible_char_never(st, k) == NoChar

\* Controller::possible_char
possible_char(st, k) ==
    IF st.key_seq = <<>>
    THEN IF k.tag = "Char" THEN SomeChar(k.v) ELSE NoChar
    ELSE NoChar

\* Controller::set_alert, at time t
set_alert(st, text, t) ==
    Log([Log(st, Call("set_alert", text))
            EXCEPT !.alert = SomeText(text), !.last_alert = SomeInstant(t)],
        Call("show_cursor", ""))

\* Controller::clear_alert
clear_alert(st) ==
    IF st.last_alert.some
    THEN Log(Log([st EXCEPT !.last_alert = NoInstant, !.alert = NoText],
                 Call("clear_alert", "")),
             Call("show_cursor", ""))
    ELSE st

\* show_keys displaying nothing.
show_keys_silent(st, t) == st

\* Controller::show_keys
show_keys(st, t) == set_alert(st, KeySeqString(st.key_seq), t)

\* show_undefined_keys that never says "key sequence".
show_undefined_keys_singular(st, t) ==
    set_alert(st, KeySeqString(st.key_seq) \o ": undefined key", t)

\* Controller::show_undefined_keys
show_undefined_keys(st, t) ==
    set_alert(st,
              KeySeqString(st.key_seq) \o ": undefined "
                  \o (IF Len(st.key_seq) = 1 THEN "key" ELSE "key sequence"),
              t)

\* clear_keys that drops only the last key.
clear_keys_last(st) ==
    [st EXCEPT !.key_seq = IF @ = <<>> THEN @ ELSE SubSeq(@, 1, Len(@) - 1)]

\* Controller::clear_keys
clear_keys(st) == [st EXCEPT !.key_seq = <<>>]

\* The result of an iteration: the state it leaves and whether the loop goes on.
Going(st) == [st |-> st, pc |-> "run"]
Broke(st) == [st |-> st, pc |-> "quit"]
Failed(st) == [st |-> st, pc |-> "failed"]

---------------------------------------------------------------------------
(* Controller::run, one iteration, by the branch the key takes. *)

TERM_CHANGE_DELAY == 100

BoolString(b) == IF b THEN "true" ELSE "false"

\* idle_tick leaving the timer in place after the resize.
idle_tick_keeps_timer(st, t, changed) ==
    LET st1 == Log(st, KeysCall("size_changed", <<>>, BoolString(changed)))
    IN  IF changed
        THEN [st1 EXCEPT !.term_changed = SomeInstant(t)]
        ELSE IF st1.term_changed.some
             THEN IF t - st1.term_changed.v > TERM_CHANGE_DELAY
                  THEN Log(st1, Call("resize", ""))
                  ELSE st1
             ELSE st1

\* idle_tick taking the alert down as well.
idle_tick_clears_alert(st, t, changed) ==
    LET st1 == clear_alert(Log(st, KeysCall("size_changed", <<>>, BoolString(changed))))
    IN  IF changed
        THEN [st1 EXCEPT !.term_changed = SomeInstant(t)]
        ELSE IF st1.term_changed.some
             THEN IF t - st1.term_changed.v > TERM_CHANGE_DELAY
                  THEN [Log(st1, Call("resize", "")) EXCEPT !.term_changed = NoInstant]
                  ELSE st1
             ELSE st1

\* idle_tick starting the timer anew on every tick that finds it unexpired.
idle_tick_restarts(st, t, changed) ==
    LET st1 == Log(st, KeysCall("size_changed", <<>>, BoolString(changed)))
    IN  IF changed
        THEN [st1 EXCEPT !.term_changed = SomeInstant(t)]
        ELSE IF st1.term_changed.some
             THEN IF t - st1.term_changed.v > TERM_CHANGE_DELAY
                  THEN [Log(st1, Call("resize", "")) EXCEPT !.term_changed = NoInstant]
                  ELSE [st1 EXCEPT !.term_changed = SomeInstant(t)]
             ELSE st1

\* idle_tick committing the resize as soon as the delay is reached.
idle_tick_early(st, t, changed) ==
    LET st1 == Log(st, KeysCall("size_changed", <<>>, BoolString(changed)))
    IN  IF changed
        THEN [st1 EXCEPT !.term_changed = SomeInstant(t)]
        ELSE IF st1.term_changed.some
             THEN IF t - st1.term_changed.v >= TERM_CHANGE_DELAY
                  THEN [Log(st1, Call("resize", "")) EXCEPT !.term_changed = NoInstant]
                  ELSE st1
             ELSE st1

\* key == Key::None, at time t; `changed` is what term::size_changed() says.
idle_tick(st, t, changed) ==
    LET st1 == Log(st, KeysCall("size_changed", <<>>, BoolString(changed)))
    IN  IF changed
        THEN [st1 EXCEPT !.term_changed = SomeInstant(t)]
        ELSE IF st1.term_changed.some
             THEN IF t - st1.term_changed.v > TERM_CHANGE_DELAY
                  THEN [Log(st1, Call("resize", "")) EXCEPT !.term_changed = NoInstant]
                  ELSE st1
             ELSE st1

\* apply_answer_action going on after Quit.
apply_answer_action_ignores_quit(st, action, t) ==
    IF action.tag = "Alert" THEN Going(set_alert(st, action.text, t))
    ELSE IF action.tag = "Question"
         THEN Going(set_question(clear_alert(st), action.text, action.fn))
    ELSE Going(st)

\* match action { ... } of the Question branch
apply_answer_action(st, action, t) ==
    IF action.tag = "Quit" THEN Broke(st)
    ELSE IF action.tag = "Alert" THEN Going(set_alert(st, action.text, t))
    ELSE IF action.tag = "Question"
         THEN Going(set_question(clear_alert(st), action.text, action.fn))
    ELSE Going(st)

\* force_cancel turning the callback's failure into an alert.
force_cancel_absorbs(st, res, t) ==
    LET st1 == Log(st, AnswerCall(st.question.answer_fn, NoText, res.tag))
    IN  IF res = Err THEN Going(set_alert(clear_question(st1), "error", t))
        ELSE apply_answer_action(clear_question(st1), res, t)

\* key == CTRL_G while a Question is active; `res` is what the answer
\* callback returns.
force_cancel(st, res, t) ==
    LET st1 == Log(st, AnswerCall(st.question.answer_fn, NoText, res.tag))
    IN  IF res = Err THEN Failed(st1)
        ELSE apply_answer_action(clear_question(st1), res, t)

\* The Accept arm applying the callback's Action over the Question.
accept_over_question(st, res, t) ==
    LET st1 == Log(st, AnswerCall(st.question.answer_fn,
                                  SomeText(buffer(st.question.buffer)),
                                  res.tag))
    IN  IF res = Err THEN Failed(st1)
        ELSE apply_answer_action(st1, res, t)

\* The Accept arm handing the callback the prompt instead of the text.
accept_prompt(st, res, t) ==
    LET st1 == Log(st, AnswerCall(st.question.answer_fn,
                                  SomeText(st.question.prompt),
                                  res.tag))
    IN  IF res = Err THEN Failed(st1)
        ELSE apply_answer_action(clear_question(st1), res, t)

\* Directive::Accept
accept(st, res, t) ==
    LET st1 == Log(st, AnswerCall(st.question.answer_fn,
                                  SomeText(buffer(st.question.buffer)),
                                  res.tag))
    IN  IF res = Err THEN Failed(st1)
        ELSE apply_answer_action(clear_question(st1), res, t)

\* Directive::Cancel
cancel(st, t) == apply_answer_action(clear_question(st), Nothing, t)

\* question_key handing Ctrl-G to the line editor like any other key.
question_key_forwards_all(st, k, t, dir, res) ==
    LET pk == process_key(st.question, k, dir)
        st1 == Log([st EXCEPT !.question = pk.question],
                   CallRecord("process_key", "", <<k>>, NoText, pk.directive))
    IN  IF pk.directive = "Continue" THEN apply_answer_action(st1, Nothing, t)
        ELSE IF pk.directive = "Accept" THEN accept(st1, res, t)
        ELSE cancel(st1, t)

\* A real key while a Question is active. `dir` is the directive of the line
\* editor for a key that is no character, `res` what the answer callback returns.
question_key(st, k, t, dir, res) ==
    IF k = CTRL_G
    THEN force_cancel(st, res, t)
    ELSE LET pk == process_key(st.question, k, dir)
             st1 == Log([st EXCEPT !.question = pk.question],
                        CallRecord("process_key", "", <<k>>, NoText, pk.directive))
         IN  IF pk.directive = "Continue" THEN apply_answer_action(st1, Nothing, t)
             ELSE IF pk.directive = "Accept" THEN accept(st1, res, t)
             ELSE cancel(st1, t)

\* apply_op_action opening a Question over the pending keys.
apply_op_action_question_over_keys(st, action, t) ==
    IF action.tag = "Quit" THEN Broke(st)
    ELSE IF action.tag = "Alert" THEN Going(clear_keys(set_alert(st, action.text, t)))
    ELSE IF action.tag = "Question"
         THEN Going(set_question(clear_alert(st), action.text, action.fn))
    ELSE Going(clear_keys(clear_alert(st)))

\* apply_op_action leaving the alert when the operation returns no Action.
apply_op_action_stale_alert(st, action, t) ==
    IF action.tag = "Quit" THEN Broke(st)
    ELSE IF action.tag = "Alert" THEN Going(clear_keys(set_alert(st, action.text, t)))
    ELSE IF action.tag = "Question"
         THEN Going(clear_keys(set_question(clear_alert(st), action.text, action.fn)))
    ELSE Going(clear_keys(st))

\* apply_op_action opening the Question over the alert.
apply_op_action_keeps_alert(st, action, t) ==
    IF action.tag = "Quit" THEN Broke(st)
    ELSE IF action.tag = "Alert" THEN Going(clear_keys(set_alert(st, action.text, t)))
    ELSE IF action.tag = "Question"
         THEN Going(clear_keys(set_question(st, action.text, action.fn)))
    ELSE Going(clear_keys(clear_alert(st)))

\* apply_op_action with the pending keys cleared only when the operation
\* returns no Action.
apply_op_action_keeps_keys(st, action, t) ==
    IF action.tag = "Quit" THEN Broke(st)
    ELSE IF action.tag = "Alert" THEN Going(set_alert(st, action.text, t))
    ELSE IF action.tag = "Question"
         THEN Going(set_question(clear_alert(st), action.text, action.fn))
    ELSE Going(clear_keys(clear_alert(st)))

\* match op_fn(&mut self.env)? { ... } and the clear_keys that follows it
apply_op_action(st, action, t) ==
    IF action.tag = "Quit" THEN Broke(st)
    ELSE IF action.tag = "Alert" THEN Going(clear_keys(set_alert(st, action.text, t)))
    ELSE IF action.tag = "Question"
         THEN Going(clear_keys(set_question(clear_alert(st), action.text, action.fn)))
    ELSE Going(clear_keys(clear_alert(st)))

\* normal_key without the Ctrl-G arm: Ctrl-G is pushed like any other key.
normal_key_no_reset(st, k, t, res) ==
    LET c == possible_char(st, k)
    IN  IF c.some
        THEN Going(clear_alert(Log(st, Call("insert_char", CharString(c.v)))))
        ELSE LET st1 == [st EXCEPT !.key_seq = Append(@, k)]
                 op_fn == find(st1.key_seq)
                 st2 == Log(st1, KeysCall("find", st1.key_seq, op_fn.v))
             IN  IF op_fn.some
                 THEN LET st3 == Log(st2, OpCall(op_fn.v, res.tag))
                      IN  IF res = Err THEN Failed(st3)
                          ELSE apply_op_action(st3, res, t)
                 ELSE LET pre == is_prefix(st2.key_seq)
                          st3 == Log(st2, KeysCall("is_prefix", st2.key_seq, BoolString(pre)))
                      IN  IF pre
                          THEN Going(show_keys(st3, t))
                          ELSE Going(clear_keys(show_undefined_keys(st3, t)))

\* A real key while no Question is active. `res` is what the operation returns.
normal_key(st, k, t, res) ==
    LET c == possible_char(st, k)
    IN  IF c.some
        THEN Going(clear_alert(Log(st, Call("insert_char", CharString(c.v)))))
        ELSE IF k = CTRL_G
        THEN Going(clear_alert(clear_keys(st)))
        ELSE LET st1 == [st EXCEPT !.key_seq = Append(@, k)]
                 op_fn == find(st1.key_seq)
                 st2 == Log(st1, KeysCall("find", st1.key_seq, op_fn.v))
             IN  IF op_fn.some
                 THEN LET st3 == Log(st2, OpCall(op_fn.v, res.tag))
                      IN  IF res = Err THEN Failed(st3)
                          ELSE apply_op_action(st3, res, t)
                 ELSE LET pre == is_prefix(st2.key_seq)
                          st3 == Log(st2, KeysCall("is_prefix", st2.key_seq, BoolString(pre)))
                      IN  IF pre
                          THEN Going(show_keys(st3, t))
                          ELSE Going(clear_keys(show_undefined_keys(st3, t)))

---------------------------------------------------------------------------
(* The key source and the steps of the loop. *)

\* An interactive keyboard delivers any key; a scripted one delivers the
\* keys of its script in order and then nothing more.
Live == [live |-> TRUE, script |-> <<>>, pos |-> 0]
Scripted(ks) == [live |-> FALSE, script |-> ks, pos |-> 0]

Delivers(k) ==
    \/ keyboard.live
    \/ /\ keyboard.pos < Len(keyboard.script)
       /\ k = keyboard.script[keyboard.pos + 1]

Delivered == IF keyboard.live THEN keyboard ELSE [keyboard EXCEPT !.pos = @ + 1]

\* let key = self.keyboard.read()? returns k after d milliseconds.
Read(k, d) ==
    /\ pc = "run"
    /\ now + d <= MaxTime
    /\ Delivers(k)
    /\ key' = k
    /\ now' = now + d
    /\ keyboard' = Delivered

\* The iteration ends in state out.st, with the loop in out.pc.
Finish(out) ==
    /\ pc' = out.pc
    /\ key_seq' = out.st.key_seq
    /\ last_alert' = out.st.last_alert
    /\ question' = out.st.question
    /\ term_changed' = out.st.term_changed
    /\ alert' = out.st.alert
    /\ calls' = out.st.calls

RealKey(k) == k \in RealKeys /\ k # CTRL_G

\* self.keyboard.read()? fails.
ReadFail ==
    \E d \in Delays :
        /\ pc = "run"
        /\ now + d <= MaxTime
        /\ keyboard.live
        /\ now' = now + d
        /\ key' = KeyErr
        /\ pc' = "failed"
        /\ calls' = <<>>
        /\ UNCHANGED <<key_seq, last_alert, question, term_changed, alert, keyboard>>

IdleTick ==
    \E d \in Delays, changed \in BOOLEAN :
        /\ keyboard.live
        /\ Read(KeyNone, d)
        /\ Finish(Going(idle_tick(Context, now + d, changed)))

QuestionCtrlG ==
    \E d \in Delays, res \in Outcomes :
        /\ question.some
        /\ Read(CTRL_G, d)
        /\ Finish(question_key(Context, CTRL_G, now + d, "Continue", res))

QuestionContinue ==
    \E k \in RealKeys, d \in Delays :
        /\ question.some
        /\ RealKey(k)
        /\ k.tag = "Char" => Len(question.buffer) < MaxBuf
        /\ Read(k, d)
        /\ Finish(question_key(Context, k, now + d, "Continue", Nothing))

QuestionAccept ==
    \E k \in RealKeys, d \in Delays, res \in Outcomes :
        /\ question.some
        /\ RealKey(k)
        /\ k.tag # "Char"
        /\ Read(k, d)
        /\ Finish(question_key(Context, k, now + d, "Accept", res))

QuestionCancel ==
    \E k \in RealKeys, d \in Delays :
        /\ question.some
        /\ RealKey(k)
        /\ k.tag # "Char"
        /\ Read(k, d)
        /\ Finish(question_key(Context, k, now + d, "Cancel", Nothing))

InsertChar ==
    \E k \in RealKeys, d \in Delays :
        /\ ~question.some
        /\ possible_char(Context, k).some
        /\ Read(k, d)
        /\ Finish(normal_key(Context, k, now + d, Nothing))

ResetKeys ==
    \E d \in Delays :
        /\ ~question.some
        /\ ~possible_char(Context, CTRL_G).some
        /\ Read(CTRL_G, d)
        /\ Finish(normal_key(Context, CTRL_G, now + d, Nothing))

BoundKeys ==
    \E k \in RealKeys, d \in Delays, res \in Outcomes :
        /\ ~question.some
        /\ ~possible_char(Context, k).some
        /\ RealKey(k)
        /\ find(Append(key_seq, k)).some
        /\ Read(k, d)
        /\ Finish(normal_key(Context, k, now + d, res))

PrefixKeys ==
    \E k \in RealKeys, d \in Delays :
        /\ ~question.some
        /\ ~possible_char(Context, k).some
        /\ RealKey(k)
        /\ ~find(Append(key_seq, k)).some
        /\ is_prefix(Append(key_seq, k))
        /\ Read(k, d)
        /\ Finish(normal_key(Context, k, now + d, Nothing))

UndefinedKeys ==
    \E k \in RealKeys, d \in Delays :
        /\ ~question.some
        /\ ~possible_char(Context, k).some
        /\ RealKey(k)
        /\ ~find(Append(key_seq, k)).some
        /\ ~is_prefix(Append(key_seq, k))
        /\ Read(k, d)
        /\ Finish(normal_key(Context, k, now + d, Nothing))

\* Context::new, before the first iteration.
Fresh ==
    /\ pc = "run"
    /\ key = KeyNone
    /\ now = 0
    /\ key_seq = <<>>
    /\ question = NoQuestion
    /\ term_changed = NoInstant
    /\ calls = <<>>

Init ==
    /\ Fresh
    /\ last_alert = NoInstant
    /\ alert = NoText
    /\ keyboard = Live

Next ==
    \/ ReadFail
    \/ IdleTick
    \/ QuestionCtrlG
    \/ QuestionContinue
    \/ QuestionAccept
    \/ QuestionCancel
    \/ InsertChar
    \/ ResetKeys
    \/ BoundKeys
    \/ PrefixKeys
    \/ UndefinedKeys

Spec == Init /\ [][Next]_vars

\* The keyboard's read times out with Key::None, some time after the
\* previous read, and the terminal's size has not changed since.
QuietLater ==
    \E d \in Delays \ {0} :
        /\ keyboard.live
        /\ Read(KeyNone, d)
        /\ Finish(Going(idle_tick(Context, now + d, FALSE)))

\* The loop of run with a keyboard whose reads keep timing out as time
\* advances: while the loop runs and the clock is short of MaxTime, an idle
\* tick without a size change is not put off for ever.
SpecFair == Init /\ [][Next]_vars /\ WF_vars(QuietLater)

\* The scripts of SpecFeed: every key sequence of 1 to MaxScript keys.
Scripts == UNION {[1..n -> RealKeys] : n \in 1..MaxScript}

\* No Question, nothing pending, an alert displayed or not, and a script to feed.
InitFeed ==
    /\ Fresh
    /\ \/ last_alert = NoInstant /\ alert = NoText
       \/ last_alert = SomeInstant(0) /\ alert = SomeText("^C: undefined key")
    /\ \E ks \in Scripts : keyboard = Scripted(ks)

NextFeed ==
    \/ QuestionCtrlG
    \/ QuestionContinue
    \/ QuestionAccept
    \/ QuestionCancel
    \/ InsertChar
    \/ ResetKeys
    \/ BoundKeys
    \/ PrefixKeys
    \/ UndefinedKeys

SpecFeed == InitFeed /\ [][NextFeed]_vars

---------------------------------------------------------------------------
(* Vocabulary of the properties. *)

\* The indices of the calls of function fn in a record of calls.
CallsOf(cs, fn) == {i \in DOMAIN cs : cs[i].fn = fn}
Called(cs, fn) == CallsOf(cs, fn) # {}

\* A key sequence is bound; it begins a longer bound sequence.
Bound(ks) == \E b \in BoundSeqs : Len(b.keys) = Len(ks) /\ b.keys = ks
BeginsBound(ks) ==
    \E b \in BoundSeqs :
        /\ Len(ks) < Len(b.keys)
        /\ \A i \in 1..Len(ks) : b.keys[i] = ks[i]
BoundOp(ks) == (CHOOSE b \in BoundSeqs : b.keys = ks).op

\* The script being fed and the part of it fed so far.
Script == keyboard.script
Fed == SubSeq(keyboard.script, 1, keyboard.pos)

\* Fed from an empty pending sequence with no Question active, every key of
\* ks is appended to the pending sequence and none resolves before the last:
\* the first key is no printable character, no key is Ctrl-G, and no proper
\* prefix of ks is bound.
Accumulates(ks) ==
    /\ ks[1].tag # "Char"
    /\ \A i \in 1..Len(ks) : ks[i] # CTRL_G
    /\ \A n \in 1..(Len(ks) - 1) : ~Bound(SubSeq(ks, 1, n))

---------------------------------------------------------------------------
(* C1 *)

\* C1 as stated: for every unbound key sequence s that begins a longer bound
\* sequence, fed one key at a time from Normal state with nothing pending,
\* after each key the pending sequence is the keys fed so far, the alert
\* text is the rendered pending sequence, and no operation was invoked.
C1_AsStated ==
    (~keyboard.live /\ ~Bound(Script) /\ BeginsBound(Script)) =>
        /\ key_seq = Fed
        /\ keyboard.pos > 0 => alert = SomeText(KeySeqString(Fed))
        /\ ~Called(calls, "op_fn")

\* C1, amended: the same, for the sequences s whose first key is no
\* printable character, that hold no Ctrl-G and that have no bound proper
\* prefix.
C1_PrefixPending ==
    (~keyboard.live /\ ~Bound(Script) /\ BeginsBound(Script) /\ Accumulates(Script)) =>
        /\ pc = "run"
        /\ key_seq = Fed
        /\ keyboard.pos > 0 => alert = SomeText(KeySeqString(Fed)) /\ last_alert.some
        /\ ~Called(calls, "op_fn")

C1_Witness ==
    /\ Script = <<CTRL_X, CTRL_X>>
    /\ keyboard.pos = 2
    /\ key_seq = <<CTRL_X, CTRL_X>>
    /\ alert = SomeText("^X ^X")

---------------------------------------------------------------------------
(* C2 *)

\* The calls in cs are exactly one invocation of an operation, that of op.
InvokedOnce(cs, op) ==
    /\ Cardinality(CallsOf(cs, "op_fn")) = 1
    /\ \A i \in CallsOf(cs, "op_fn") : cs[i].target = op

\* C2 as stated: for every bound key sequence b, fed in order from Normal
\* state with nothing pending, alert displayed or not, exactly one operation
\* is invoked, the one bound to b, and the pending sequence is empty
\* afterwards (in the loop: once run has returned nothing is pending on it).
C2_AsStated ==
    (~keyboard.live /\ Bound(Script)) =>
        /\ keyboard.pos < Len(Script) => ~Called(calls, "op_fn")
        /\ keyboard.pos = Len(Script) =>
              /\ InvokedOnce(calls, BoundOp(Script))
              /\ pc = "run" => key_seq = <<>>

\* C2, amended: for every bound key sequence b whose first key is no
\* printable character, that holds no Ctrl-G and that has no bound proper
\* prefix, no operation is invoked before the last key and the last key
\* invokes exactly one, the one bound to b; the pending sequence is empty
\* afterwards, except that when the operation failed or returned Quit run
\* has returned with b still in it.
C2_BoundResolves ==
    (~keyboard.live /\ Bound(Script) /\ Accumulates(Script)) =>
        /\ keyboard.pos < Len(Script) =>
              /\ pc = "run"
              /\ key_seq = Fed
              /\ ~Called(calls, "op_fn")
        /\ keyboard.pos = Len(Script) =>
              /\ InvokedOnce(calls, BoundOp(Script))
              /\ \A i \in CallsOf(calls, "op_fn") :
                    /\ calls[i].ret \in {"Err", "Quit"} => pc # "run" /\ key_seq = Script
                    /\ calls[i].ret \notin {"Err", "Quit"} => pc = "run" /\ key_seq = <<>>

C2_Witness ==
    /\ Script = <<CTRL_X, CTRL_X, CTRL_A>>
    /\ keyboard.pos = 3
    /\ InvokedOnce(calls, "open-window-top")
    /\ Called(calls, "clear_alert")
    /\ pc = "run"
    /\ key_seq = <<>>

---------------------------------------------------------------------------
(* C3 *)

BindingsConsulted(cs) == Called(cs, "find") \/ Called(cs, "is_prefix")

\* C3: with no Question active and nothing pending, a printable-character
\* key is inserted into the active editor (once, and nothing else is), the
\* alert is cleared, nothing becomes pending, and neither Bindings::find nor
\* Bindings::is_prefix is called.
C3_FastInsert ==
    [][ (~question.some /\ key_seq = <<>> /\ key'.tag = "Char") =>
            /\ pc' = "run"
            /\ calls' # <<>>
            /\ calls'[1] = Call("insert_char", CharString(key'.v))
            /\ Cardinality(CallsOf(calls', "insert_char")) = 1
            /\ ~last_alert'.some
            /\ alert' = NoText
            /\ key_seq' = <<>>
            /\ ~question'.some
            /\ ~BindingsConsulted(calls')
            /\ ~Called(calls', "op_fn") ]_vars

\* A character was inserted and the alert that was displayed is gone.
C3_Witness ==
    /\ key = CHAR_a
    /\ Called(calls, "insert_char")
    /\ Called(calls, "clear_alert")
    /\ alert = NoText
    /\ key_seq = <<>>

---------------------------------------------------------------------------
(* C4 *)

\* The line editor answered the latest key with directive dir.
Directed(cs, dir) == \E i \in CallsOf(cs, "process_key") : cs[i].ret = dir

\* C4 as stated: when the line editor returns Cancel, the answer function
\* is invoked with None, the Question is destroyed, and the Action the
\* answer function returned is applied.
C4_AsStated ==
    [][ (question.some /\ Directed(calls', "Cancel")) =>
            /\ \E i \in CallsOf(calls', "answer_fn") :
                  /\ calls'[i].target = question.answer_fn
                  /\ calls'[i].arg = NoText
            /\ Called(calls', "clear_shared") ]_vars

---------------------------------------------------------------------------
(* C5 *)

\* The calls in cs hold exactly one call of the answer callback f, with arg.
AnsweredOnce(cs, f, arg) ==
    /\ Cardinality(CallsOf(cs, "answer_fn")) = 1
    /\ \A i \in CallsOf(cs, "answer_fn") : cs[i].target = f /\ cs[i].arg = arg

\* What the one call of the answer callback in cs returned.
Answer(cs) == cs[CHOOSE i \in CallsOf(cs, "answer_fn") : TRUE].ret

\* The Question was torn down after its answer callback was called.
DestroyedAfterAnswer(cs) ==
    \E i \in CallsOf(cs, "answer_fn"), j \in CallsOf(cs, "clear_shared") : i < j

---------------------------------------------------------------------------
(* C6 *)

---------------------------------------------------------------------------
(* C7 *)

\* The latest iteration was an idle tick on which the size had not changed.
QuietTick(k, cs) ==
    /\ k = KeyNone
    /\ cs # <<>>
    /\ cs[1] = KeysCall("size_changed", <<>>, "false")

\* C7: with the debounce timer running, an idle tick that reports no size
\* change at most 100 ms after the timer's start commits no resize and
\* leaves the timer running; one more than 100 ms after it commits the
\* resize exactly once and clears the timer, so that later ticks without a
\* size change commit nothing.
C7_Debounce ==
    [][ /\ (QuietTick(key', calls') /\ term_changed.some /\ now' - term_changed.v <= 100) =>
              /\ ~Called(calls', "resize")
              /\ term_changed' = term_changed
        /\ (QuietTick(key', calls') /\ term_changed.some /\ now' - term_changed.v > 100) =>
              /\ Cardinality(CallsOf(calls', "resize")) = 1
              /\ term_changed' = NoInstant
        /\ (QuietTick(key', calls') /\ ~term_changed.some) =>
              /\ ~Called(calls', "resize")
              /\ term_changed' = NoInstant ]_vars

\* A quiet tick 101 ms after the size changed has committed the resize.
C7_Witness ==
    /\ QuietTick(key, calls)
    /\ Called(calls, "resize")
    /\ term_changed = NoInstant
    /\ now = 101

---------------------------------------------------------------------------
(* C8 *)

\* The key the latest iteration read was appended to the pending sequence:
\* no Question was active, and the key was neither taken as a character to
\* insert nor Ctrl-G.
Appended(k) ==
    /\ ~question.some
    /\ k \in RealKeys \ {CTRL_G}
    /\ ~(key_seq = <<>> /\ k.tag = "Char")

\* C8: when appending a key makes the pending sequence neither bound nor
\* the beginning of a bound sequence, no operation is invoked, the pending
\* sequence is cleared, and the alert is the rendered sequence followed by
\* ": undefined key" for one key and ": undefined key sequence" for more.
C8_Undefined ==
    [][ LET ks == Append(key_seq, key')
        IN  (Appended(key') /\ ~Bound(ks) /\ ~BeginsBound(ks)) =>
                /\ pc' = "run"
                /\ ~Called(calls', "op_fn")
                /\ ~Called(calls', "insert_char")
                /\ key_seq' = <<>>
                /\ last_alert' = SomeInstant(now')
                /\ alert' = SomeText(KeySeqString(ks) \o
                                     (IF Len(ks) = 1 THEN ": undefined key"
                                                     ELSE ": undefined key sequence")) ]_vars

C8_Witness ==
    /\ key = CTRL_X
    /\ alert = SomeText("^X ^X ^X: undefined key sequence")
    /\ key_seq = <<>>

---------------------------------------------------------------------------
(* C9 *)

\* C9: with no Question active and keys pending, Ctrl-G empties the pending
\* sequence and clears the alert, and it looks up no binding, invokes no
\* operation and inserts nothing.
C9_Reset ==
    [][ (~question.some /\ key_seq # <<>> /\ key' = CTRL_G) =>
            /\ pc' = "run"
            /\ key_seq' = <<>>
            /\ ~last_alert'.some
            /\ alert' = NoText
            /\ ~question'.some
            /\ ~BindingsConsulted(calls')
            /\ ~Called(calls', "op_fn")
            /\ ~Called(calls', "insert_char") ]_vars

\* Two keys were pending and displayed when Ctrl-G arrived.
C9_Witness ==
    /\ Script = <<CTRL_X, CTRL_X, CTRL_G>>
    /\ keyboard.pos = 3
    /\ key_seq = <<>>
    /\ Called(calls, "clear_alert")
    /\ alert = NoText

---------------------------------------------------------------------------
(* C10 *)

\* C10: when an iteration activates a Question (an operation or an answer
\* callback returned Action::Question), no alert is displayed afterwards,
\* and an alert that was displayed before was cleared before the Question's
\* line editor was made.
C10_QuestionClearsAlert ==
    [][ Called(calls', "InputEditor::new") =>
            /\ question'.some
            /\ ~last_alert'.some
            /\ alert' = NoText
            /\ last_alert.some =>
                  \E i \in CallsOf(calls', "clear_alert"),
                     j \in CallsOf(calls', "InputEditor::new") : i < j ]_vars

\* An alert was displayed when the operation returned Action::Question.
C10_Witness ==
    /\ Called(calls, "op_fn")
    /\ \E i \in CallsOf(calls, "clear_alert"),
          j \in CallsOf(calls, "InputEditor::new") : i < j
    /\ question.some
    /\ ~last_alert.some

---------------------------------------------------------------------------
(* C11 *)

\* The invocations of operations and answer callbacks in a record of calls,
\* and whether one of them returned tag.
Invocations(cs) == CallsOf(cs, "op_fn") \cup CallsOf(cs, "answer_fn")
Returned(cs, tag) == \E i \in Invocations(cs) : cs[i].ret = tag

\* The display calls by which an Action is applied.
ActionApplied(cs) == Called(cs, "set_alert") \/ Called(cs, "InputEditor::new")

\* C11: when an operation or an answer callback returns Action::Quit, the
\* loop ends in that iteration with run returning Ok: nothing else is
\* invoked in it, no alert or Question is set, and no iteration (so no read
\* of a key) follows; run returns Ok in no other way.
C11_QuitEnds ==
    [][ /\ pc = "run"
        /\ Returned(calls', "Quit") =>
              /\ pc' = "quit"
              /\ Cardinality(Invocations(calls')) = 1
              /\ ~ActionApplied(calls')
        /\ pc' = "quit" => Returned(calls', "Quit") ]_vars

\* An answer callback returned Quit and run has returned Ok.
C11_Witness ==
    /\ pc = "quit"
    /\ \E i \in CallsOf(calls, "answer_fn") : calls[i].ret = "Quit"
    /\ ~question.some

---------------------------------------------------------------------------
(* C12 *)

\* C12: when the read of a key, an operation or an answer callback fails,
\* run returns the failure in that iteration: the failing call is the last
\* thing the iteration does, it is made once, no Action is applied, the
\* alert and the Question stay as they were, and no iteration follows; run
\* fails in no other way.
C12_FailureEnds ==
    [][ /\ pc # "failed"
        /\ (key' = KeyErr \/ Returned(calls', "Err")) =>
              /\ pc' = "failed"
              /\ Cardinality(Invocations(calls')) <= 1
              /\ \A i \in Invocations(calls') : i = Len(calls')
              /\ ~ActionApplied(calls')
              /\ ~Called(calls', "clear_alert")
              /\ ~Called(calls', "clear_shared")
              /\ last_alert' = last_alert
              /\ alert' = alert
              /\ question' = question
        /\ pc' = "failed" => (key' = KeyErr \/ Returned(calls', "Err")) ]_vars

\* An operation bound to two keys failed while an alert was displayed.
C12_Witness ==
    /\ pc = "failed"
    /\ \E i \in CallsOf(calls, "op_fn") : calls[i].ret = "Err"
    /\ Len(key_seq) = 2
    /\ last_alert.some

---------------------------------------------------------------------------
(* C13 *)

\* C13: after an iteration in which an operation or an answer callback
\* returned no Action, no alert is displayed, whether or not a Question was
\* active; the same holds when the line editor continues or cancels, which
\* yield no Action either.
C13_NoOpClearsAlert ==
    [][ (\/ Returned(calls', "None")
         \/ Directed(calls', "Continue")
         \/ Directed(calls', "Cancel")) =>
            /\ ~last_alert'.some
            /\ alert' = NoText ]_vars

\* An operation returned no Action and the alert displayed before is gone.
C13_Witness ==
    /\ \E i \in CallsOf(calls, "op_fn") : calls[i].ret = "None"
    /\ Called(calls, "clear_alert")
    /\ ~last_alert.some
    /\ alert = NoText

---------------------------------------------------------------------------
(* C14 *)

\* The length of the longest bound sequence exceeds n.
ShorterThanLongest(n) == \E b \in BoundSeqs : n < Len(b.keys)

---------------------------------------------------------------------------
(* C15 *)

NoCtrlG(ks) == \A i \in DOMAIN ks : ks[i] # CTRL_G

\* C15: Ctrl-G is never in the pending sequence, never in a sequence given
\* to Bindings::find or Bindings::is_prefix, never given to the Question's
\* line editor and never inserted as text; so no operation bound to a
\* sequence that holds Ctrl-G is ever invoked.
C15_CtrlGNeverAKey ==
    /\ NoCtrlG(key_seq)
    /\ \A i \in DOMAIN calls :
          calls[i].fn \in {"find", "is_prefix", "process_key"} => NoCtrlG(calls[i].keys)
    /\ key = CTRL_G => ~Called(calls, "insert_char")
    /\ \A i \in CallsOf(calls, "op_fn") :
          \A b \in BoundSeqs : b.op = calls[i].target => NoCtrlG(b.keys)

\* The keys of the bound sequence ^X ^G were fed: the ^G reset the pending ^X.
C15_Witness ==
    /\ Script = <<CTRL_X, CTRL_G>>
    /\ keyboard.pos = 2
    /\ key = CTRL_G
    /\ key_seq = <<>>
    /\ calls = <<Call("clear_alert", ""), Call("show_cursor", "")>>

---------------------------------------------------------------------------
(* C16 *)

\* The latest iteration was an idle tick on which the size had changed.
ChangeTick(k, cs) ==
    /\ k = KeyNone
    /\ cs # <<>>
    /\ cs[1] = KeysCall("size_changed", <<>>, "true")

\* C16: a resize is committed only on an idle tick that reports no size
\* change, with the timer running, more than 100 ms after the timer's
\* start, and the commit clears the timer; the timer is started and
\* restarted by the idle ticks that report a size change and by nothing
\* else, so its start is the latest such tick and a tick reporting a change
\* lies between any two commits.
C16_OneCommitPerBurst ==
    [][ /\ Called(calls', "resize") =>
              /\ QuietTick(key', calls')
              /\ term_changed.some
              /\ now' - term_changed.v > 100
              /\ Cardinality(CallsOf(calls', "resize")) = 1
              /\ term_changed' = NoInstant
        /\ ChangeTick(key', calls') =>
              /\ ~Called(calls', "resize")
              /\ term_changed' = SomeInstant(now')
        /\ ~ChangeTick(key', calls') => term_changed' \in {term_changed, NoInstant} ]_vars

\* A resize committed at 202 ms, late enough to follow one committed at 101 ms.
C16_Witness ==
    /\ QuietTick(key, calls)
    /\ Called(calls, "resize")
    /\ term_changed = NoInstant
    /\ now = 202

---------------------------------------------------------------------------
(* C17 *)

\* C17: an idle tick leaves the pending sequence, the alert and the active
\* Question as they were and keeps the loop running; it calls nothing but
\* term::size_changed and Environment::resize, so no operation, no answer
\* callback and no line-editor key processing; and an iteration that read a
\* real key leaves the resize timer as it was.
C17_IdleTickFrame ==
    [][ /\ key' = KeyNone =>
              /\ pc' = "run"
              /\ key_seq' = key_seq
              /\ last_alert' = last_alert
              /\ alert' = alert
              /\ question' = question
              /\ \A i \in DOMAIN calls' : calls'[i].fn \in {"size_changed", "resize"}
        /\ key' \in RealKeys => term_changed' = term_changed ]_vars

\* An idle tick that found the size changed while ^X ^X was pending and shown.
C17_Witness ==
    /\ ChangeTick(key, calls)
    /\ key_seq = <<CTRL_X, CTRL_X>>
    /\ alert = SomeText("^X ^X")
    /\ term_changed = SomeInstant(now)

---------------------------------------------------------------------------
(* C18 *)

\* C18: while a Question is active, a Ctrl-G is not given to the line
\* editor and the answer callback is called once, with None; any other real
\* key is given to the line editor exactly once, alone; and no real key is
\* inserted into the active editor, appended to the pending sequence or
\* looked up in the Bindings, nor is an operation invoked.
C18_QuestionKeys ==
    [][ (question.some /\ key' \in RealKeys) =>
            /\ key' = CTRL_G =>
                  /\ ~Called(calls', "process_key")
                  /\ AnsweredOnce(calls', question.answer_fn, NoText)
            /\ key' # CTRL_G =>
                  /\ Cardinality(CallsOf(calls', "process_key")) = 1
                  /\ \A i \in CallsOf(calls', "process_key") : calls'[i].keys = <<key'>>
            /\ ~Called(calls', "insert_char")
            /\ ~Called(calls', "find")
            /\ ~Called(calls', "is_prefix")
            /\ ~Called(calls', "op_fn")
            /\ key_seq' = key_seq ]_vars

\* The character b was given to the line editor, which holds "ab" after it.
C18_Witness ==
    /\ question.some
    /\ key = CHAR_b
    /\ question.buffer = <<97, 98>>
    /\ key_seq = <<>>
    /\ Directed(calls, "Continue")

---------------------------------------------------------------------------
(* C20 *)

\* C20: between iterations, and after the loop has ended, the pending key
\* sequence is empty whenever a Question is active.
C20_QuestionNothingPending ==
    question.some => key_seq = <<>>

\* A Question opened by the operation bound to the two keys ^X a.
C20_Witness ==
    /\ question.some
    /\ key_seq = <<>>
    /\ key = CHAR_a
    /\ \E i \in CallsOf(calls, "find") : calls[i].keys = <<CTRL_X, CHAR_a>>
    /\ Returned(calls, "Question")

---------------------------------------------------------------------------
(* C19 *)

\* The latest iteration was an idle tick that committed the resize.
Committed ==
    /\ QuietTick(key, calls)
    /\ Called(calls, "resize")
    /\ term_changed = NoInstant

\* Real keys took the clock so near MaxTime that no later idle tick can follow.
OutOfTime ==
    /\ key \in RealKeys
    /\ now + TERM_CHANGE_DELAY > MaxTime

\* C19: with idle ticks that keep arriving as time advances, a debounce
\* timer started at least two delays before MaxTime leads to a committed
\* resize with the timer back at None, in Normal and in Question state and
\* with any real keys in between, unless an idle tick finds the size changed
\* again, the loop ends, or real keys use up the time that is left.
C19_ResizeCommitted ==
    (pc = "run" /\ term_changed.some /\ term_changed.v + 2 * TERM_CHANGE_DELAY <= MaxTime)
        ~> (Committed \/ ChangeTick(key, calls) \/ pc # "run" \/ OutOfTime)

\* A resize committed while a Question with text in its editor was active.
C19_Witness ==
    /\ Committed
    /\ question.some
    /\ question.buffer # <<>>

---------------------------------------------------------------------------
(* C21 *)

\* C21: in every state between iterations, and after the loop has ended, no
\* alert is present while a Question is active: the alert timestamp is None
\* and nothing is displayed as an alert; and an iteration that began with a
\* Question active sets an alert only after it destroyed that Question,
\* leaving no Question active.
C21_NoAlertWithQuestion ==
    /\ [](question.some => (last_alert = NoInstant /\ alert = NoText))
    /\ [][ (question.some /\ Called(calls', "set_alert")) =>
               /\ question' = NoQuestion
               /\ \E i \in CallsOf(calls', "clear_shared"),
                     j \in CallsOf(calls', "set_alert") : i < j ]_vars

\* The answer callback of an accepted Question returned an alert, which was
\* set once the Question was gone.
C21_Witness ==
    /\ pc = "run"
    /\ Directed(calls, "Accept")
    /\ Returned(calls, "Alert")
    /\ question = NoQuestion
    /\ last_alert = SomeInstant(now)
    /\ alert = SomeText("saved")

====
